---- MODULE Spec2Model ----
(***************************************************************************)
(* GadgetSetAnalyzer (GSA): the driver script GSA.py as a state            *)
(* machine, together with the GadgetSet / GadgetStats / utility contracts  *)
(* it calls (modelled from the design document, since those modules are    *)
(* not part of the source tree).                                           *)
(***************************************************************************)
EXTENDS Integers, Sequences, FiniteSets, TLC

VARIABLES
    args,           \* the parsed command line (argparse namespace)
    pc,             \* position of the script
    exit_code,      \* process exit status; -1 while running
    stdout,         \* diagnostics printed so far, in order
    variants_dict,  \* ordered name -> path mapping (Python dict, insertion order)
    world,          \* the scanner's answer for every binary; unobserved until the first scan
    naRepr,         \* how the statistics module represents "not applicable"
    original,       \* GadgetSet of the original binary
    variant,        \* GadgetSet of the variant of the current iteration
    stat,           \* GadgetStats of the current iteration
    idx,            \* number of variants the loop has completed
    calls,          \* log of the constructor calls made, in order
    directory_name, \* results directory created, or NoDir
    lines,          \* the report line arrays prepared in memory
    files           \* report files on disk: file name -> lines

vars == <<args, pc, exit_code, stdout, variants_dict, world, naRepr, original,
          variant, stat, idx, calls, directory_name, lines, files>>

----------------------------------------------------------------------------
(* Bounds of the model. *)

MaxVariants == 2    \* entries after --variants
MaxEntryLen == 3    \* characters of one NAME=PATH entry (SpecParse)
MaxRaw == 2         \* raw candidates a scan returns (SpecCompare)

Alphabet == {"a", "="}

RECURSIVE SeqsUpTo(_, _)
SeqsUpTo(S, n) ==
    IF n = 0 THEN {<<>>}
    ELSE LET shorter == SeqsUpTo(S, n - 1)
         IN  shorter \cup {Append(s, x) : s \in {t \in shorter : Len(t) = n - 1}, x \in S}

\* Every string over the alphabet, for the validation of --variants.
Entries == SeqsUpTo(Alphabet, MaxEntryLen)

VariantLists == SeqsUpTo(Entries, MaxVariants) \ {<<>>}

\* NAME=PATH entries over two names and two binaries, and two malformed ones.
Names == {<<"a">>, <<"b">>}

Paths == {<<"a">>, <<"b">>}

DriverEntries ==
    {n \o <<"=">> \o q : n \in Names, q \in Paths} \cup {<<"a">>, <<"=", "a">>}

DriverLists == SeqsUpTo(DriverEntries, MaxVariants) \ {<<>>}

----------------------------------------------------------------------------
(* str.split("=") and the dict assignment of the validation loop. *)

RECURSIVE FirstEq(_, _)
FirstEq(s, i) ==
    IF i > Len(s) THEN 0
    ELSE IF s[i] = "=" THEN i
    ELSE FirstEq(s, i + 1)

RECURSIVE Split(_)
Split(s) ==
    LET i == FirstEq(s, 1)
    IN  IF i = 0 THEN <<s>>
        ELSE <<SubSeq(s, 1, i - 1)>> \o Split(SubSeq(s, i + 1, Len(s)))

\* Faulty variant of Malformed: the empty name and empty path are not checked.
MalformedCountOnly(parts) == Len(parts) # 2

\* Line 50.
Malformed(parts) == Len(parts) # 2 \/ parts[1] = <<>> \/ parts[2] = <<>>

HasKey(d, k) == \E i \in 1..Len(d) : d[i].key = k

DictSet(d, k, v) ==
    IF HasKey(d, k)
    THEN [i \in 1..Len(d) |-> IF d[i].key = k THEN [key |-> k, path |-> v] ELSE d[i]]
    ELSE Append(d, [key |-> k, path |-> v])

DictGet(d, k) == d[CHOOSE i \in 1..Len(d) : d[i].key = k].path

DictKeys(d) == [i \in 1..Len(d) |-> d[i].key]

RECURSIVE FirstMalformed(_, _)
FirstMalformed(vs, i) ==
    IF i > Len(vs) THEN 0
    ELSE IF Malformed(Split(vs[i])) THEN i
    ELSE FirstMalformed(vs, i + 1)

RECURSIVE BuildDict(_, _, _)
BuildDict(vs, i, d) ==
    IF i > Len(vs) THEN d
    ELSE LET parts == Split(vs[i])
         IN  BuildDict(vs, i + 1, DictSet(d, parts[1], parts[2]))

----------------------------------------------------------------------------
(* Gadgets, the classifier and GadgetSet (design document sections 3, 4.3, *)
(* 4.4).  A raw candidate is an offset and an instruction text; a text is  *)
(* a sequence of tokens whose last token is the terminator.                *)

\* Two addresses; each number stands for the text of an address.
Offsets == {1, 2}

PopRet   == <<"pop", "ret">>
PopRetWs == <<"pop", " ", "ret">>
DispJmp  == <<"disp", "jmp">>
SysCall  == <<"sys", "call">>
PopOnly  == <<"pop">>

Texts == {PopRet, PopRetWs, DispJmp, SysCall, PopOnly}

Raw(o, t) == [offset |-> o, text |-> t]

\* The candidates a scan may return: every category, a rejected candidate,
\* and the same content at two offsets and in two spellings.
RawCandidates ==
    {Raw(1, PopRet), Raw(2, PopRet), Raw(2, PopRetWs), Raw(1, DispJmp), Raw(2, DispJmp),
     Raw(1, SysCall), Raw(1, PopOnly)}

RawLists == SeqsUpTo(RawCandidates, MaxRaw)

IsBlank(tok) == tok = " "

Normalize(text) == SelectSeq(text, LAMBDA tok : ~IsBlank(tok))

Terminator(key) == IF key = <<>> THEN "none" ELSE key[Len(key)]

CategoryOf(key) ==
    CASE Terminator(key) = "ret"  -> "ROP"
      [] Terminator(key) = "jmp"  -> "JOP"
      [] Terminator(key) = "call" -> "COP"
      [] OTHER -> "rejected"

Roles == {"SyscallGadgets", "JOPDispatchers", "JOPDataLoaders", "JOPInitializers",
          "JOPTrampolines", "COPDispatchers", "COPDataLoaders", "COPInitializers",
          "COPStrongTrampolines", "COPIntrastackPivots"}

RoleCategories(role) ==
    CASE role = "SyscallGadgets" -> {"ROP", "JOP", "COP"}
      [] role \in {"JOPDispatchers", "JOPDataLoaders", "JOPInitializers",
                   "JOPTrampolines"} -> {"JOP"}
      [] OTHER -> {"COP"}

RoleMarker(role) ==
    CASE role = "SyscallGadgets" -> "sys"
      [] role \in {"JOPDispatchers", "COPDispatchers"} -> "disp"
      [] role \in {"JOPDataLoaders", "COPDataLoaders"} -> "load"
      [] role \in {"JOPInitializers", "COPInitializers"} -> "init"
      [] role \in {"JOPTrampolines", "COPStrongTrampolines"} -> "tramp"
      [] OTHER -> "pivot"

HasToken(key, tok) == \E i \in 1..Len(key) : key[i] = tok

MatchesRole(key, role) ==
    /\ CategoryOf(key) \in RoleCategories(role)
    /\ HasToken(key, RoleMarker(role))

Gadget(o, key) == [offset |-> o, instructions |-> key]

Keys(gadgets) == {g.instructions : g \in gadgets}

\* Classify every candidate in scan order; a candidate whose terminator is no
\* control transfer is rejected, one whose content is already catalogued is a
\* duplicate (the first occurrence is the representative).
RECURSIVE Catalog(_, _, _)
Catalog(raws, i, acc) ==
    IF i > Len(raws) THEN acc
    ELSE LET key == Normalize(raws[i].text)
         IN  IF CategoryOf(key) = "rejected" \/ key \in Keys(acc)
             THEN Catalog(raws, i + 1, acc)
             ELSE Catalog(raws, i + 1, acc \cup {Gadget(raws[i].offset, key)})

InCategory(gadgets, cat) == {g \in gadgets : CategoryOf(g.instructions) = cat}

InRole(gadgets, role) == {g \in gadgets : MatchesRole(g.instructions, role)}

NoSet == [built |-> FALSE]

GadgetSet(name, raws, createCFG, output_console) ==
    LET all == Catalog(raws, 1, {})
        sp  == [r \in Roles |-> InRole(all, r)]
    IN  [built |-> TRUE,
         name |-> name,
         cfg |-> createCFG,
         allGadgets |-> all,
         ROPGadgets |-> InCategory(all, "ROP"),
         JOPGadgets |-> InCategory(all, "JOP"),
         COPGadgets |-> InCategory(all, "COP"),
         sp |-> sp,
         total_unique_gadgets |-> Cardinality(all),
         total_sp_gadgets |-> Cardinality(UNION {sp[r] : r \in Roles}),
         total_sp_types |-> Cardinality({r \in Roles : sp[r] # {}})]

NoFunction == "None"

FunctionAt(offset) == IF offset = 1 THEN "f1" ELSE "f2"

getFunction(gs, offset) == IF gs.cfg THEN FunctionAt(offset) ELSE NoFunction

----------------------------------------------------------------------------
(* GadgetStats.compare (design document section 4.5).  A rate is either    *)
(* the value NA or the exact fraction n/d.                                 *)

NA == [t |-> "NA", n |-> 0, d |-> 0]

Ratio(n, d) == [t |-> "ratio", n |-> n, d |-> d]

Families == {"total", "ROP", "JOP", "COP", "sp"} \cup Roles

Items(gs, fam) ==
    CASE fam = "total" -> gs.allGadgets
      [] fam = "ROP" -> gs.ROPGadgets
      [] fam = "JOP" -> gs.JOPGadgets
      [] fam = "COP" -> gs.COPGadgets
      [] fam = "sp" -> UNION {gs.sp[r] : r \in Roles}
      [] OTHER -> gs.sp[fam]

\* Faulty variant of SameGadget: identity by address and content.
SameGadgetByOffset(g, h) == g = h

\* Two gadgets are the same gadget when their normalized instruction
\* sequences are equal, whatever their offsets.
SameGadget(g, h) == g.instructions = h.instructions

\* Gadgets of xs whose content does not occur in ys.
Absent(xs, ys) == {g \in xs : ~\E h \in ys : SameGadget(g, h)}

Diff(base, cand, fam) == Cardinality(Items(cand, fam)) - Cardinality(Items(base, fam))

\* Faulty variant of Reduction: an empty base reports 0 instead of NA.
ReductionZeroForEmpty(base, cand, fam) ==
    IF Cardinality(Items(base, fam)) = 0 THEN Ratio(0, 1)
    ELSE Ratio(Cardinality(Absent(Items(base, fam), Items(cand, fam))),
               Cardinality(Items(base, fam)))

Reduction(base, cand, fam) ==
    IF Cardinality(Items(base, fam)) = 0 THEN NA
    ELSE Ratio(Cardinality(Absent(Items(base, fam), Items(cand, fam))),
               Cardinality(Items(base, fam)))

IntroductionRate(base, cand, fam) ==
    IF Cardinality(Items(cand, fam)) = 0 THEN NA
    ELSE Ratio(Cardinality(Absent(Items(cand, fam), Items(base, fam))),
               Cardinality(Items(cand, fam)))

\* Removed gadgets live in the base binary, introduced ones in the candidate.
Removed(base, cand) == Absent(base.allGadgets, cand.allGadgets)

Introduced(base, cand) == Absent(cand.allGadgets, base.allGadgets)

Changed(base, cand) ==
    {[where |-> "base", gadget |-> g] : g \in Removed(base, cand)}
        \cup {[where |-> "candidate", gadget |-> g] : g \in Introduced(base, cand)}

Regions(base, cand) ==
    {getFunction(base, g.offset) : g \in Removed(base, cand)}
        \cup {getFunction(cand, g.offset) : g \in Introduced(base, cand)}

\* Faulty variant of Locality: the share of regions among the changed
\* gadgets, |regions| / |changed|, without taking it from 1.
LocalityRegionShare(base, cand, output_locality) ==
    IF output_locality /\ base.cfg /\ cand.cfg /\ Changed(base, cand) # {}
    THEN Ratio(Cardinality(Regions(base, cand) \ {NoFunction}),
               Cardinality(Changed(base, cand)))
    ELSE NA

Locality(base, cand, output_locality) ==
    IF output_locality /\ base.cfg /\ cand.cfg /\ Changed(base, cand) # {}
    THEN Ratio(Cardinality(Changed(base, cand)) - Cardinality(Regions(base, cand) \ {NoFunction}),
               Cardinality(Changed(base, cand)))
    ELSE NA

NoStat == [built |-> FALSE]

GadgetStats(base, cand, output_console, output_locality) ==
    [built |-> TRUE,
     base |-> base.name,
     candidate |-> cand.name,
     CountDiff |-> [f \in Families |-> Diff(base, cand, f)],
     CountReduction |-> [f \in Families |-> Reduction(base, cand, f)],
     IntroductionRate |-> [f \in Families |-> IntroductionRate(base, cand, f)],
     changed |-> Cardinality(Changed(base, cand)),
     total_sp_type_reduction |-> base.total_sp_types - cand.total_sp_types,
     gadgetLocality |-> Locality(base, cand, output_locality)]

----------------------------------------------------------------------------
(* Formatting of report fields (GSA.py lines 83-84 and the utility         *)
(* function fmt_percent_keep_precision).                                   *)

NAReprs == {"None", "nan"}

Raise == [t |-> "raise", n |-> 0, d |-> 0]

RECURSIVE TimesPow2Mod(_, _, _)
\* (a * 2^e) mod m, by repeated doubling.
TimesPow2Mod(a, e, m) ==
    IF e = 0 THEN a % m ELSE TimesPow2Mod((2 * a) % m, e - 1, m)

RECURSIVE Pow2(_)
Pow2(e) == IF e = 0 THEN 1 ELSE 2 * Pow2(e - 1)

RECURSIVE BinaryExponent(_, _, _)
\* The e with 2^52 <= (a/b) * 2^e < 2^53, for a/b > 0: the scale of the
\* 53-bit significand of the double nearest a/b.
BinaryExponent(a, b, e) ==
    IF a < b THEN BinaryExponent(2 * a, b, e + 1)
    ELSE IF a >= 2 * b THEN BinaryExponent(a, 2 * b, e - 1)
    ELSE e

\* Round to nearest, ties to even: the signed step from a value with
\* remainder r modulo unit to the multiple of unit it rounds to; lowOdd says
\* whether the multiple below is odd.
NearestEvenStep(r, unit, lowOdd) ==
    IF 2 * r < unit THEN 0 - r
    ELSE IF 2 * r > unit THEN unit - r
    ELSE IF lowOdd THEN unit - r
    ELSE 0 - r

\* For the rate a/2000 (a tie of the decimal rounding: its percentage ends in
\* 5 at the second decimal), the sign of y - 100 * a/2000, where y is what
\* float.__format__ hands to the decimal conversion: the double nearest
\* a/2000, multiplied by 100.0 and rounded to a double again.  With
\* N = a * 2^e and m the 53-bit significand, m * 2000 - N = e1 and the
\* rounded product P' = 100 * m + e2, so the sign is that of
\* 100 * e1 + 2000 * e2; only residues of N are needed.
TieSide(a) ==
    LET D == 2000
        e == BinaryExponent(a, D, 52)
        R == TimesPow2Mod(a, e, 256 * D)
        rho == R % D
        e1 == NearestEvenStep(rho, D, ((R - rho) \div D) % 2 = 1)
        mLow == ((R + e1) \div D) % 256
        big == IF e >= 52 THEN a * Pow2(e - 52) >= 2560
               ELSE a >= 2560 * Pow2(52 - e)
        unit == IF big THEN 128 ELSE 64
        pLow == (100 * mLow) % (2 * unit)
        e2 == NearestEvenStep(pLow % unit, unit, pLow >= unit)
    IN  100 * e1 + D * e2

\* The tenths of a percent "{:.1%}" prints for the float n/d (n >= 0, d > 0).
\* Off a tie the double and the exact quotient round alike; on a tie the
\* side of the double decides, and only a double exactly on the tie goes to
\* the even neighbour.
PercentTenths(n, d) ==
    LET k == (1000 * n) \div d
        r == (1000 * n) % d
    IN  IF 2 * r > d THEN k + 1
        ELSE IF 2 * r < d THEN k
        ELSE IF TieSide(2 * k + 1) > 0 THEN k + 1
        ELSE IF TieSide(2 * k + 1) < 0 THEN k
        ELSE k + (k % 2)

\* "{:.1%}".format(x): a float prints as a percentage with one decimal (n is
\* in tenths of a percent); None has no such format and raises TypeError; a
\* float nan prints as "nan%".
rate_format(x, repr) ==
    IF x.t = "ratio" THEN [t |-> "pct1", n |-> PercentTenths(x.n, x.d), d |-> 0]
    ELSE IF repr = "None" THEN Raise
    ELSE [t |-> "nan%", n |-> 0, d |-> 0]

\* The percentage n/d kept exact, or the text NA.
fmt_percent_keep_precision(x) ==
    IF x.t = "ratio" THEN [t |-> "pct", n |-> x.n, d |-> x.d]
    ELSE [t |-> "NA", n |-> 0, d |-> 0]

Count(gs, fam) ==
    IF fam = "total" THEN gs.total_unique_gadgets
    ELSE IF fam = "sp" THEN gs.total_sp_gadgets
    ELSE Cardinality(Items(gs, fam))

CategoryColumns == {"total", "ROP", "JOP", "COP"}

File1Columns == {"total", "ROP", "JOP", "COP", "sp"}

Header == [kind |-> "header"]

\* Faulty variant of File1Original: the JOP column repeats the ROP count.
File1OriginalRepeatedColumn(o) ==
    [kind |-> "original", name |-> o.name,
     count |-> [f \in File1Columns |-> Count(o, IF f = "JOP" THEN "ROP" ELSE f)]]

\* Output file 1 (counts and reduction).
File1Original(o) ==
    [kind |-> "original", name |-> o.name,
     count |-> [f \in File1Columns |-> Count(o, f)]]

File1Variant(v, st, repr) ==
    [kind |-> "variant", name |-> v.name,
     count |-> [f \in File1Columns |-> Count(v, f)],
     diff |-> [f \in File1Columns |-> st.CountDiff[f]],
     rate |-> [f \in File1Columns |-> rate_format(st.CountReduction[f], repr)]]

\* Output file 2 (introduction rates).
File2Original(o) ==
    [kind |-> "original", name |-> o.name,
     count |-> [f \in CategoryColumns |-> Count(o, f)]]

File2Variant(v, st, repr) ==
    [kind |-> "variant", name |-> v.name,
     count |-> [f \in CategoryColumns |-> Count(v, f)],
     rate |-> [f \in CategoryColumns |-> rate_format(st.IntroductionRate[f], repr)]]

\* Output files 3 and 4 (special purpose counts, reduction, introduction).
File3Original(o) ==
    [kind |-> "original", name |-> o.name,
     count |-> [f \in Roles |-> Count(o, f)]]

File3Variant(v, st, repr) ==
    [kind |-> "variant", name |-> v.name,
     count |-> [f \in Roles |-> Count(v, f)],
     diff |-> [f \in Roles |-> st.CountDiff[f]],
     rate |-> [f \in Roles |-> rate_format(st.CountReduction[f], repr)]]

File4Original(o) ==
    [kind |-> "original", name |-> o.name,
     count |-> [f \in Roles |-> Count(o, f)]]

File4Variant(v, st, repr) ==
    [kind |-> "variant", name |-> v.name,
     count |-> [f \in Roles |-> Count(v, f)],
     rate |-> [f \in Roles |-> rate_format(st.IntroductionRate[f], repr)]]

\* Output files 5 and 7 (expressivity, quality): the scores themselves are
\* not modelled, the rows carry the name and the category counts.
File5Row(kind, gs) == [kind |-> kind, name |-> gs.name]

File7Row(kind, gs) ==
    [kind |-> kind, name |-> gs.name,
     count |-> [f \in {"ROP", "JOP", "COP"} |-> Count(gs, f)]]

\* Output file 6 (locality).
File6Variant(v, st) ==
    [kind |-> "variant", name |-> v.name,
     locality |-> fmt_percent_keep_precision(st.gadgetLocality)]

\* The simplified report.
SimpleOriginal(o) ==
    [kind |-> "original", name |-> o.name,
     locality |-> [t |-> "NA", n |-> 0, d |-> 0],
     sp_types |-> o.total_sp_types,
     syscalls |-> Count(o, "SyscallGadgets")]

SimpleVariant(v, st) ==
    [kind |-> "variant", name |-> v.name,
     locality |-> fmt_percent_keep_precision(st.gadgetLocality),
     sp_types |-> st.total_sp_type_reduction,
     syscalls |-> st.CountDiff["SyscallGadgets"]]

RowRaises(row) == \E f \in DOMAIN row.rate : row.rate[f] = Raise

SpecialSetOrder ==
    <<"SyscallGadgets", "JOPDispatchers", "JOPDataLoaders", "JOPInitializers",
      "JOPTrampolines", "COPDispatchers", "COPDataLoaders", "COPInitializers",
      "COPStrongTrampolines", "COPIntrastackPivots">>

RECURSIVE Enumerations(_)
\* Line 303, for gadget in specialSet: the order is the container's own,
\* which the script neither sorts nor fixes; every order is possible.
Enumerations(S) ==
    IF S = {} THEN {<<>>}
    ELSE UNION {{<<x>> \o rest : rest \in Enumerations(S \ {x})} : x \in S}

\* The three lines the address report holds for one gadget.
GadgetLines(v, g) ==
    <<[kind |-> "gadget", instructions |-> g.instructions],
      [kind |-> "offset", offset |-> g.offset],
      [kind |-> "function", function |-> getFunction(v, g.offset)]>>

RECURSIVE SetLines(_, _)
SetLines(v, gs) ==
    IF gs = <<>> THEN <<>>
    ELSE GadgetLines(v, Head(gs)) \o SetLines(v, Tail(gs))

RECURSIVE SpecialLines(_, _)
\* The lines of the special sets i.. of v, for every order the sets may
\* be iterated in.
SpecialLines(v, i) ==
    IF i > Len(SpecialSetOrder) THEN {<<>>}
    ELSE {SetLines(v, gs) \o rest :
            gs \in Enumerations(v.sp[SpecialSetOrder[i]]),
            rest \in SpecialLines(v, i + 1)}

\* Output file 8 (addresses of special purpose gadgets), one variant's
\* block: special is the element of SpecialLines(v, 1) the run produced.
File8Variant(o, v, special) ==
    <<[kind |-> "intro", name |-> v.name]>> \o special \o <<[kind |-> "sep"]>>

\* Output file 9 (LaTeX rows): four lines, each a sequence of cells.
TableOriginal(o) ==
    <<  <<[kind |-> "label"], [kind |-> "count", n |-> o.total_unique_gadgets]>>,
        <<[kind |-> "label"], [kind |-> "expressivity"]>>,
        <<[kind |-> "label"], [kind |-> "quality"]>>,
        <<[kind |-> "label"], [kind |-> "count", n |-> o.total_sp_types]>>  >>

TableVariant(t, v, st, repr) ==
    <<  Append(t[1], [kind |-> "cell", n |-> v.total_unique_gadgets,
                      rate |-> rate_format(st.IntroductionRate["total"], repr)]),
        Append(t[2], [kind |-> "expressivity"]),
        Append(t[3], [kind |-> "quality"]),
        Append(t[4], [kind |-> "cell", n |-> v.total_sp_types,
                      diff |-> st.total_sp_type_reduction])  >>

TableRaises(st, repr) == rate_format(st.IntroductionRate["total"], repr) = Raise

TableEnd(t) == [i \in 1..4 |-> Append(t[i], [kind |-> "eol"])]

----------------------------------------------------------------------------
(* The environment: what the scanner answers for each binary.  A binary is *)
(* named by the first character of its path.                               *)

Ok(raws) == [ok |-> TRUE, raw |-> raws]

Fail == [ok |-> FALSE, raw |-> <<>>]

RawA == <<Raw(1, PopRet), Raw(2, DispJmp)>>
RawARelocated == <<Raw(2, PopRetWs), Raw(1, DispJmp)>>
RawB == <<Raw(1, SysCall), Raw(2, PopRet)>>
RawC == <<Raw(1, SysCall), Raw(1, PopOnly)>>
RawD == <<Raw(1, PopRet), Raw(2, PopRetWs)>>
RawEmpty == <<>>

World(o, a, b) == [observed |-> TRUE, o |-> o, a |-> a, b |-> b]

Unobserved == [observed |-> FALSE]

Worlds ==
    {World(Ok(RawA), Ok(RawARelocated), Ok(RawB)),
     World(Ok(RawA), Fail, Ok(RawB)),
     World(Ok(RawEmpty), Ok(RawA), Ok(RawEmpty)),
     World(Ok(RawB), Ok(RawC), Ok(RawA)),
     World(Ok(RawA), Ok(RawA), Fail),
     World(Ok(RawD), Ok(RawB), Ok(RawD)),
     World(Fail, Ok(RawA), Ok(RawB))}

OriginalPath == <<"o">>

OriginalName == <<"Original">>

Scan(w, path) == w[Head(path)]

----------------------------------------------------------------------------
(* The driver script, GSA.py.                                              *)

\* args.variants when --variants is absent (None); with nargs='+' a list
\* that was given is never empty.
NoVariants == <<>>

\* args.result_folder_name: None unless --result_folder_name is given.
NoFolder == [given |-> FALSE, name |-> ""]

Folder(name) == [given |-> TRUE, name |-> name]

\* Every combination of the switches; --result_folder_name, which only line
\* 74 reads, is given in file-report runs without --output_addresses and
\* --output_tables.
Flags ==
    {fl \in [output_metrics : BOOLEAN, output_addresses : BOOLEAN,
             output_tables : {"", "prog"}, output_locality : BOOLEAN,
             output_simple : BOOLEAN, result_folder_name : {NoFolder, Folder("X")}] :
        fl.result_folder_name.given =>
            /\ fl.output_metrics
            /\ ~fl.output_addresses
            /\ fl.output_tables = ""}

\* given_locality keeps the --output_locality switch as parse_args returned
\* it: line 45 overwrites args.output_locality.
ArgsOf(vs, fl) ==
    [original |-> OriginalPath, original_name |-> OriginalName, variants |-> vs,
     output_console |-> FALSE,
     output_metrics |-> fl.output_metrics, output_addresses |-> fl.output_addresses,
     output_tables |-> fl.output_tables, output_locality |-> fl.output_locality,
     output_simple |-> fl.output_simple, given_locality |-> fl.output_locality,
     result_folder_name |-> fl.result_folder_name]

NoLines ==
    [simple |-> <<>>, f1 |-> <<>>, f2 |-> <<>>, f3 |-> <<>>, f4 |-> <<>>, f5 |-> <<>>,
     f6 |-> <<>>, f7 |-> <<>>, f8 |-> <<>>, table |-> <<>>]

NoDir == <<>>

Fresh ==
    /\ pc = "start"
    /\ exit_code = -1
    /\ stdout = <<>>
    /\ variants_dict = <<>>
    /\ world = Unobserved
    /\ naRepr = "unobserved"
    /\ original = NoSet
    /\ variant = NoSet
    /\ stat = NoStat
    /\ idx = 0
    /\ calls = <<>>
    /\ directory_name = NoDir
    /\ lines = NoLines
    /\ files = <<>>

Init ==
    /\ \E vs \in DriverLists \cup {NoVariants}, fl \in Flags : args = ArgsOf(vs, fl)
    /\ Fresh

ParseFlags == {fl \in Flags : /\ ~fl.output_addresses
                              /\ ~fl.output_locality
                              /\ fl.output_tables = ""}

InitParse ==
    /\ \E vs \in VariantLists \cup {NoVariants}, fl \in ParseFlags : args = ArgsOf(vs, fl)
    /\ Fresh

\* Faulty variant of EnableLocality: the switch is left as given.
EnableLocalityAsGiven(a) == a

\* Line 45: args.output_locality = args.output_locality or args.output_simple.
EnableLocality(a) == [a EXCEPT !.output_locality = a.output_locality \/ a.output_simple]

\* Lines 45-55: enable locality for the simple report, then validate the
\* --variants entries in order; the first malformed entry ends the run.
\* Without --variants the loop header of line 48 iterates over None: an
\* uncaught TypeError.
ParseVariants ==
    /\ pc = "start"
    /\ args' = EnableLocality(args)
    /\ LET k == FirstMalformed(args.variants, 1)
       IN  IF args.variants = NoVariants
           THEN /\ variants_dict' = <<>>
                /\ stdout' = Append(stdout, "Traceback")
                /\ exit_code' = 1
                /\ pc' = "crashed"
           ELSE IF k # 0
           THEN /\ variants_dict' = BuildDict(SubSeq(args.variants, 1, k - 1), 1, <<>>)
                /\ stdout' = Append(stdout, "Error: variants are not in proper format")
                /\ exit_code' = 1
                /\ pc' = "exited"
           ELSE /\ variants_dict' = BuildDict(args.variants, 1, <<>>)
                /\ stdout' = Append(stdout, "Starting Gadget Set Analyzer")
                /\ exit_code' = exit_code
                /\ pc' = "original"
    /\ UNCHANGED <<world, naRepr, original, variant, stat, idx, calls,
                   directory_name, lines, files>>

SetCall(name, path, createCFG, ok) ==
    [fn |-> "GadgetSet", name |-> name, path |-> path, createCFG |-> createCFG,
     output_console |-> args.output_console, ok |-> ok]

StatsCall(base, cand, locality) ==
    [fn |-> "GadgetStats", base |-> base, candidate |-> cand,
     output_console |-> args.output_console, output_locality |-> locality]

OriginalCFG == FALSE

\* Lines 57-59: the original's GadgetSet; a scan failure is an uncaught
\* exception that ends the process.
BuildOriginal ==
    /\ pc = "original"
    /\ \E w \in Worlds, r \in NAReprs :
        /\ world' = w
        /\ naRepr' = r
        /\ calls' = Append(calls, SetCall(args.original_name, args.original,
                                          OriginalCFG, Scan(w, args.original).ok))
        /\ IF Scan(w, args.original).ok
           THEN /\ original' = GadgetSet(args.original_name, Scan(w, args.original).raw,
                                         OriginalCFG, args.output_console)
                /\ stdout' = Append(stdout, "Analyzing original package")
                /\ pc' = IF args.output_metrics THEN "mkdir" ELSE "console"
                /\ exit_code' = exit_code
           ELSE /\ original' = original
                /\ stdout' = stdout \o <<"Analyzing original package", "Traceback">>
                /\ pc' = "crashed"
                /\ exit_code' = 1
    /\ UNCHANGED <<args, variants_dict, variant, stat, idx, directory_name, lines, files>>

\* Faulty variant of CurrentKey: the keys are visited last to first.
CurrentKeyReversed == variants_dict[Len(variants_dict) - idx].key

\* Line 63 (and 190): for key in variants_dict.keys().
CurrentKey == variants_dict[idx + 1].key

CurrentPath == DictGet(variants_dict, CurrentKey)

VariantCFG == args.output_addresses

\* Lines 63-68: one iteration of the console-mode loop.
ConsoleVariant ==
    /\ pc = "console"
    /\ idx < Len(variants_dict)
    /\ calls' = IF Scan(world, CurrentPath).ok
                THEN calls \o <<SetCall(CurrentKey, CurrentPath, VariantCFG, TRUE),
                                StatsCall(original.name, CurrentKey, args.output_locality)>>
                ELSE Append(calls, SetCall(CurrentKey, CurrentPath, VariantCFG, FALSE))
    /\ IF Scan(world, CurrentPath).ok
       THEN LET v == GadgetSet(CurrentKey, Scan(world, CurrentPath).raw,
                               VariantCFG, args.output_console)
            IN  /\ variant' = v
                /\ stat' = GadgetStats(original, v, args.output_console, args.output_locality)
                /\ stdout' = Append(stdout, "Analyzing variant package")
                /\ idx' = idx + 1
                /\ pc' = pc
                /\ exit_code' = exit_code
       ELSE /\ stdout' = stdout \o <<"Analyzing variant package", "Traceback">>
            /\ pc' = "crashed"
            /\ exit_code' = 1
            /\ UNCHANGED <<variant, stat, idx>>
    /\ UNCHANGED <<args, variants_dict, world, naRepr, original, directory_name, lines, files>>

\* The console-mode loop is exhausted: the script ends.
ConsoleDone ==
    /\ pc = "console"
    /\ idx = Len(variants_dict)
    /\ pc' = "done"
    /\ exit_code' = 0
    /\ UNCHANGED <<args, stdout, variants_dict, world, naRepr, original, variant, stat,
                   idx, calls, directory_name, lines, files>>

\* Lines 74-77: the directory asked of create_output_directory, which
\* returns its name: "results/analyzer_results_" completed with a time
\* stamp, or "results/" + args.result_folder_name as it is.
ResultsDir ==
    IF args.result_folder_name.given
    THEN <<"results/", args.result_folder_name.name>>
    ELSE <<"results/analyzer_results_", "timestamp">>

\* Lines 82, 177-178, 182-183: what is printed once the directory exists.
PreparePrints ==
    <<"Writing metrics files to">>
        \o (IF ~args.output_simple /\ args.output_addresses
            THEN <<"Writing function names associated with special purpose gadgets to disk.">>
            ELSE <<>>)
        \o (IF ~args.output_simple /\ args.output_tables # ""
            THEN <<"Writing LaTeX formatted table data to disk.">>
            ELSE <<>>)

\* Lines 86-187: header and original rows of every report.
OriginalLines ==
    IF args.output_simple
    THEN [NoLines EXCEPT !.simple = <<Header, SimpleOriginal(original)>>]
    ELSE [NoLines EXCEPT
            !.f1 = <<Header, File1Original(original)>>,
            !.f2 = <<Header, File2Original(original)>>,
            !.f3 = <<Header, File3Original(original)>>,
            !.f4 = <<Header, File4Original(original)>>,
            !.f5 = <<Header, File5Row("original", original)>>,
            !.f6 = <<Header>>,
            !.f7 = <<Header, File7Row("original", original)>>,
            !.f8 = <<>>,
            !.table = IF args.output_tables # "" THEN TableOriginal(original)
                      ELSE << <<>>, <<>>, <<>>, <<>> >>]

\* Lines 72-187: create the results directory, then prepare the lines.  An
\* OSError ends the run through sys.exit with a message, exit status 1;
\* when that OSError carries no strerror, the concatenation of line 79
\* raises TypeError before anything is printed.
CreateResultsDirectory ==
    /\ pc = "mkdir"
    /\ \E outcome \in {"created", "OSError", "OSError without strerror"} :
        CASE outcome = "created" ->
                /\ directory_name' = ResultsDir
                /\ stdout' = stdout \o PreparePrints
                /\ lines' = OriginalLines
                /\ pc' = "variants"
                /\ exit_code' = exit_code
          [] outcome = "OSError" ->
                /\ stdout' = stdout \o <<"An OS Error occurred during creation of results directory",
                                         "Results cannot be logged, aborting operation...">>
                /\ exit_code' = 1
                /\ pc' = "exited"
                /\ UNCHANGED <<directory_name, lines>>
          [] OTHER ->
                /\ stdout' = Append(stdout, "Traceback")
                /\ exit_code' = 1
                /\ pc' = "crashed"
                /\ UNCHANGED <<directory_name, lines>>
    /\ UNCHANGED <<args, variants_dict, world, naRepr, original, variant, stat, idx,
                   calls, files>>

\* Lines 197-320 for one variant: the rows are appended in program order up
\* to the first statement that raises.  Result: the new lines and whether
\* an exception ended the iteration.
VariantLines(v, st, special) ==
    IF args.output_simple
    THEN [raised |-> FALSE,
          lines |-> [lines EXCEPT !.simple = Append(@, SimpleVariant(v, st))]]
    ELSE LET r1 == File1Variant(v, st, naRepr)
             r2 == File2Variant(v, st, naRepr)
             r3 == File3Variant(v, st, naRepr)
             r4 == File4Variant(v, st, naRepr)
             stage == IF RowRaises(r1) THEN 1
                      ELSE IF RowRaises(r2) THEN 2
                      ELSE IF RowRaises(r3) THEN 3
                      ELSE IF RowRaises(r4) THEN 4
                      ELSE IF args.output_tables # "" /\ TableRaises(st, naRepr) THEN 9
                      ELSE 10
         IN  [raised |-> stage < 10,
              lines |->
                [lines EXCEPT
                   !.f1 = IF stage > 1 THEN Append(@, r1) ELSE @,
                   !.f2 = IF stage > 2 THEN Append(@, r2) ELSE @,
                   !.f3 = IF stage > 3 THEN Append(@, r3) ELSE @,
                   !.f4 = IF stage > 4 THEN Append(@, r4) ELSE @,
                   !.f5 = IF stage > 5 THEN Append(@, File5Row("variant", v)) ELSE @,
                   !.f6 = IF stage > 6 /\ args.output_locality
                          THEN Append(@, File6Variant(v, st)) ELSE @,
                   !.f7 = IF stage > 7 THEN Append(@, File7Row("variant", v)) ELSE @,
                   !.f8 = IF stage > 8 /\ args.output_addresses
                          THEN @ \o File8Variant(original, v, special) ELSE @,
                   !.table = IF stage > 9 /\ args.output_tables # ""
                             THEN TableVariant(@, v, st, naRepr) ELSE @]]

\* Lines 190-320: one iteration of the file-report loop.
FileVariant ==
    /\ pc = "variants"
    /\ idx < Len(variants_dict)
    /\ calls' = IF Scan(world, CurrentPath).ok
                THEN calls \o <<SetCall(CurrentKey, CurrentPath, VariantCFG, TRUE),
                                StatsCall(original.name, CurrentKey, args.output_locality)>>
                ELSE Append(calls, SetCall(CurrentKey, CurrentPath, VariantCFG, FALSE))
    /\ IF Scan(world, CurrentPath).ok
       THEN \E special \in IF args.output_addresses /\ ~args.output_simple
                            THEN SpecialLines(GadgetSet(CurrentKey, Scan(world, CurrentPath).raw,
                                                        VariantCFG, args.output_console), 1)
                            ELSE {<<>>} :
            LET v == GadgetSet(CurrentKey, Scan(world, CurrentPath).raw,
                               VariantCFG, args.output_console)
                st == GadgetStats(original, v, args.output_console, args.output_locality)
                out == VariantLines(v, st, special)
            IN  /\ variant' = v
                /\ stat' = st
                /\ lines' = out.lines
                /\ IF out.raised
                   THEN /\ stdout' = stdout \o <<"Analyzing variant package", "Traceback">>
                        /\ pc' = "crashed"
                        /\ exit_code' = 1
                        /\ idx' = idx
                   ELSE /\ stdout' = Append(stdout, "Analyzing variant package")
                        /\ pc' = pc
                        /\ exit_code' = exit_code
                        /\ idx' = idx + 1
       ELSE /\ stdout' = stdout \o <<"Analyzing variant package", "Traceback">>
            /\ pc' = "crashed"
            /\ exit_code' = 1
            /\ UNCHANGED <<variant, stat, idx, lines>>
    /\ UNCHANGED <<args, variants_dict, world, naRepr, original, directory_name, files>>

\* The report files the write phase opens, in program order.
Requested ==
    IF args.output_simple THEN <<"GadgetSetAnalysis.csv">>
    ELSE <<"GadgetCounts_Reduction.csv", "Gadget_Introduction_Counts_Rate.csv",
           "SpecialPurpose_GadgetCounts_Reduction.csv",
           "SpecialPurpose_Gadget_Introduction_Counts_Rate.csv",
           "Expressivity_Counts.csv">>
         \o (IF args.output_locality THEN <<"Gadget Locality.csv">> ELSE <<>>)
         \o <<"Gadget Quality.csv">>
         \o (IF args.output_addresses THEN <<"Likely_Gadget_Locations.txt">> ELSE <<>>)
         \o (IF args.output_tables # "" THEN <<"Table_Formatted.txt">> ELSE <<>>)

ContentOf(ls, name) ==
    CASE name = "GadgetSetAnalysis.csv" -> ls.simple
      [] name = "GadgetCounts_Reduction.csv" -> ls.f1
      [] name = "Gadget_Introduction_Counts_Rate.csv" -> ls.f2
      [] name = "SpecialPurpose_GadgetCounts_Reduction.csv" -> ls.f3
      [] name = "SpecialPurpose_Gadget_Introduction_Counts_Rate.csv" -> ls.f4
      [] name = "Expressivity_Counts.csv" -> ls.f5
      [] name = "Gadget Locality.csv" -> ls.f6
      [] name = "Gadget Quality.csv" -> ls.f7
      [] name = "Likely_Gadget_Locations.txt" -> ls.f8
      [] OTHER -> ls.table

\* A line of which only a part reached the disk.
CutLine(file) ==
    IF file = "Table_Formatted.txt" THEN <<[kind |-> "cut"]>> ELSE [kind |-> "cut"]

\* What open(..., "w") followed by a writelines or close that raises leaves
\* on disk: the file, holding some of its first lines and possibly a part of
\* the next one.
Partial(file, content) ==
    {SubSeq(content, 1, m) \o tail :
        m \in 0..(Len(content) - 1), tail \in {<<>>, <<CutLine(file)>>}}

\* Lines 322-382: open and write each requested file in turn; the first
\* OSError, raised by an open or by a write, is caught and printed, and the
\* script ends normally.
WriteFiles ==
    /\ pc = "variants"
    /\ idx = Len(variants_dict)
    /\ \E failAt \in 0..Len(Requested), failure \in {"open", "write"} :
        LET n == IF failAt = 0 THEN Len(Requested) ELSE failAt - 1
            tableReached == /\ args.output_tables # ""
                            /\ ~args.output_simple
                            /\ failAt \in {0, Len(Requested)}
            ls == IF tableReached THEN [lines EXCEPT !.table = TableEnd(@)] ELSE lines
            whole == [i \in 1..n |-> [file |-> Requested[i],
                                      content |-> ContentOf(ls, Requested[i])]]
        IN  /\ lines' = ls
            /\ IF failAt = 0 \/ failure = "open"
               THEN files' = whole
               ELSE \E part \in Partial(Requested[failAt], ContentOf(ls, Requested[failAt])) :
                       files' = Append(whole, [file |-> Requested[failAt], content |-> part])
            /\ stdout' = IF failAt = 0 THEN stdout ELSE Append(stdout, "OSError")
    /\ pc' = "done"
    /\ exit_code' = 0
    /\ UNCHANGED <<args, variants_dict, world, naRepr, original, variant, stat, idx,
                   calls, directory_name>>

Next ==
    \/ ParseVariants
    \/ BuildOriginal
    \/ ConsoleVariant
    \/ ConsoleDone
    \/ CreateResultsDirectory
    \/ FileVariant
    \/ WriteFiles

Spec == Init /\ [][Next]_vars

SpecParse == InitParse /\ [][Next]_vars

----------------------------------------------------------------------------
(* GadgetSet.build and GadgetStats.compare on their own: every pair of     *)
(* scans within the bound, address resolution enabled on both sides.       *)

LabArgs ==
    ArgsOf(<<<<"a", "=", "a">>>>,
           [output_metrics |-> FALSE, output_addresses |-> TRUE, output_tables |-> "",
            output_locality |-> TRUE, output_simple |-> FALSE,
            result_folder_name |-> NoFolder])

InitCompare ==
    /\ args = LabArgs
    /\ pc = "lab"
    /\ exit_code = -1
    /\ stdout = <<>>
    /\ variants_dict = <<[key |-> <<"a">>, path |-> <<"a">>]>>
    /\ \E ro \in RawLists, rv \in RawLists : world = World(Ok(ro), Ok(rv), Fail)
    /\ naRepr = "nan"
    /\ original = NoSet
    /\ variant = NoSet
    /\ stat = NoStat
    /\ idx = 0
    /\ calls = <<>>
    /\ directory_name = NoDir
    /\ lines = NoLines
    /\ files = <<>>

\* GadgetSet.build for the base and for the candidate; createCFG is the
\* caller's flag that enables address resolution for a set.
LabBuildWith(baseCFG, candidateCFG) ==
    /\ pc = "lab"
    /\ original' = GadgetSet(args.original_name, Scan(world, args.original).raw,
                             baseCFG, args.output_console)
    /\ variant' = GadgetSet(CurrentKey, Scan(world, CurrentPath).raw,
                            candidateCFG, args.output_console)
    /\ pc' = "lab_built"
    /\ UNCHANGED <<args, exit_code, stdout, variants_dict, world, naRepr, stat, idx,
                   calls, directory_name, lines, files>>

LabBuild == LabBuildWith(TRUE, TRUE)

\* The same build with the candidate's address resolution enabled or
\* disabled (a base built without address resolution is what every run of
\* the driver has).
LabBuildResolvingBase ==
    \E candidateCFG \in BOOLEAN : LabBuildWith(TRUE, candidateCFG)

\* GadgetStats.compare(base, candidate).
LabCompare ==
    /\ pc = "lab_built"
    /\ stat' = GadgetStats(original, variant, args.output_console, args.output_locality)
    /\ pc' = "lab_compared"
    /\ UNCHANGED <<args, exit_code, stdout, variants_dict, world, naRepr, original,
                   variant, idx, calls, directory_name, lines, files>>

NextCompare == LabBuild \/ LabCompare

SpecCompare == InitCompare /\ [][NextCompare]_vars

\* The driver's runs that request locality, together with the comparison of
\* every pair of scans within the bound where the base resolves addresses.
InitLocality ==
    \/ Init /\ (args.output_locality \/ args.output_simple)
    \/ InitCompare

NextLocality == Next \/ LabBuildResolvingBase \/ LabCompare

SpecLocality == InitLocality /\ [][NextLocality]_vars

----------------------------------------------------------------------------
(* Properties.                                                             *)

Terminal == pc \in {"done", "crashed", "exited"}

\* An entry is NAME=PATH: exactly one "=", neither the first nor the last
\* character.
WellFormedEntry(e) ==
    \E i \in 2..(Len(e) - 1) :
        /\ e[i] = "="
        /\ \A j \in 1..Len(e) : j # i => e[j] # "="

SomeMalformed(vs) == \E i \in 1..Len(vs) : ~WellFormedEntry(vs[i])

NothingAnalyzed ==
    /\ calls = <<>>
    /\ original = NoSet
    /\ variant = NoSet
    /\ stat = NoStat

NoOutput ==
    /\ directory_name = NoDir
    /\ files = <<>>
    /\ lines = NoLines

\* C1: if any --variants entry is malformed, the run ends at once with exit
\* code 1 and the diagnostic, before any binary is analyzed and before any
\* results directory, report line or report file exists; a run that gets
\* past the validation has only well-formed entries (a run without
\* --variants ends in the loop header, nothing analyzed either).
C1_MalformedEntryTerminates ==
    pc # "start" =>
        IF SomeMalformed(args.variants)
        THEN /\ pc = "exited"
             /\ exit_code = 1
             /\ stdout = <<"Error: variants are not in proper format">>
             /\ NothingAnalyzed
             /\ NoOutput
        ELSE IF args.variants = NoVariants
             THEN pc = "crashed" /\ NothingAnalyzed /\ NoOutput
             ELSE stdout[1] = "Starting Gadget Set Analyzer"

\* C1 witness: the run ended on a malformed entry that follows a
\* well-formed one.
C1_Witness ==
    /\ pc = "exited"
    /\ exit_code = 1
    /\ Len(args.variants) >= 2
    /\ WellFormedEntry(args.variants[1])
    /\ ~WellFormedEntry(args.variants[2])
    /\ NothingAnalyzed
    /\ NoOutput

VariantSetCalls == {i \in 1..Len(calls) : calls[i].fn = "GadgetSet" /\ i > 1}

Compared(key) ==
    \E i \in 1..Len(calls) : calls[i].fn = "GadgetStats" /\ calls[i].candidate = key

\* C2: when the GadgetSet of one variant fails to build, every sibling
\* variant whose binary scans is still built and compared by the end of the
\* run.
C2_FailureIsolated ==
    (Terminal /\ \E i \in VariantSetCalls : ~calls[i].ok) =>
        \A j \in 1..Len(variants_dict) :
            Scan(world, variants_dict[j].path).ok => Compared(variants_dict[j].key)

VariantRows(ls) == {i \in 1..Len(ls) : ls[i].kind = "variant"}

RowOf(ls, name) == {i \in VariantRows(ls) : ls[i].name = name}

FileMode == directory_name # NoDir

\* C3: in the full reports, once a variant has been compared its rows of
\* output files 1 and 2 exist and show NA in every rate whose denominator
\* is 0 (reduction: the original has none; introduction: the variant has
\* none).
C3_ZeroDenominatorShowsNA ==
    (FileMode /\ ~args.output_simple /\ stat.built) =>
        /\ \E i \in RowOf(lines.f1, variant.name) :
              \A f \in File1Columns :
                  Count(original, f) = 0 => lines.f1[i].rate[f].t = "NA"
        /\ \E i \in RowOf(lines.f2, variant.name) :
              \A f \in CategoryColumns :
                  Count(variant, f) = 0 => lines.f2[i].rate[f].t = "NA"

\* C4: gadget identity in the comparison is by content.  In every metric
\* family the reduction counts the base contents missing from the candidate
\* and the introduction rate the candidate contents missing from the base,
\* whatever the offsets; a candidate holding exactly the base's contents
\* (every gadget at most relocated) has reduction 0 and introduction 0 in
\* every non-empty family.
C4_ContentIdentity ==
    stat.built =>
        \A f \in Families :
            LET b == Items(original, f)
                c == Items(variant, f)
                kept == Keys(b) \cap Keys(c)
            IN  /\ b # {} => stat.CountReduction[f]
                                = Ratio(Cardinality(Keys(b) \ kept), Cardinality(Keys(b)))
                /\ c # {} => stat.IntroductionRate[f]
                                = Ratio(Cardinality(Keys(c) \ kept), Cardinality(Keys(c)))
                /\ Keys(original.allGadgets) = Keys(variant.allGadgets) =>
                      /\ b # {} => stat.CountReduction[f].t = "ratio" /\ stat.CountReduction[f].n = 0
                      /\ c # {} => stat.IntroductionRate[f].t = "ratio"
                                   /\ stat.IntroductionRate[f].n = 0

\* C4 witness: a comparison where the candidate holds the base's contents
\* and at least one of them at another offset.
C4_Witness ==
    /\ stat.built
    /\ original.allGadgets # {}
    /\ Keys(original.allGadgets) = Keys(variant.allGadgets)
    /\ \E g \in original.allGadgets, h \in variant.allGadgets :
          g.instructions = h.instructions /\ g.offset # h.offset
    /\ stat.CountReduction["total"] = Ratio(0, Cardinality(original.allGadgets))
    /\ stat.IntroductionRate["total"] = Ratio(0, Cardinality(variant.allGadgets))

SelfCompared == stat.built /\ variant.allGadgets = original.allGadgets

\* C5 as stated: comparing a set to itself gives count diff 0, reduction 0%
\* and introduction 0% in every metric family (also the empty ones), no
\* changed gadget and locality NA.
C5_SelfCompareAllRatesZero ==
    SelfCompared =>
        /\ \A f \in Families :
              /\ stat.CountDiff[f] = 0
              /\ stat.CountReduction[f].t = "ratio" /\ stat.CountReduction[f].n = 0
              /\ stat.IntroductionRate[f].t = "ratio" /\ stat.IntroductionRate[f].n = 0
        /\ stat.changed = 0
        /\ stat.gadgetLocality = NA

\* C5 amended: comparing a set to itself gives count diff 0 in every metric
\* family, reduction 0% and introduction 0% in every family the set has
\* gadgets of and NA in every family it has none of, no changed gadget and
\* locality NA.
C5_SelfCompare ==
    SelfCompared =>
        /\ \A f \in Families :
              /\ stat.CountDiff[f] = 0
              /\ IF Items(original, f) # {}
                 THEN /\ stat.CountReduction[f].t = "ratio" /\ stat.CountReduction[f].n = 0
                      /\ stat.IntroductionRate[f].t = "ratio"
                      /\ stat.IntroductionRate[f].n = 0
                 ELSE /\ stat.CountReduction[f] = NA
                      /\ stat.IntroductionRate[f] = NA
        /\ stat.changed = 0
        /\ stat.gadgetLocality = NA

\* C5 witness: a self comparison of a set with gadgets, special purpose
\* gadgets among them, and an empty category.
C5_Witness ==
    /\ SelfCompared
    /\ original.cfg /\ variant.cfg
    /\ original.total_sp_gadgets > 0
    /\ original.COPGadgets = {}
    /\ stat.CountReduction["total"] = Ratio(0, original.total_unique_gadgets)
    /\ stat.CountReduction["COP"] = NA
    /\ stat.gadgetLocality = NA

Accepted(raws) ==
    {k \in {Normalize(raws[i].text) : i \in 1..Len(raws)} :
        k # <<>> /\ k[Len(k)] \in {"ret", "jmp", "call"}}

Partitioned(gs, raws) ==
    /\ Keys(gs.ROPGadgets) \cap Keys(gs.JOPGadgets) = {}
    /\ Keys(gs.ROPGadgets) \cap Keys(gs.COPGadgets) = {}
    /\ Keys(gs.JOPGadgets) \cap Keys(gs.COPGadgets) = {}
    /\ \A S \in {gs.ROPGadgets, gs.JOPGadgets, gs.COPGadgets} :
          Cardinality(Keys(S)) = Cardinality(S)
    /\ gs.total_unique_gadgets
          = Cardinality(gs.ROPGadgets) + Cardinality(gs.JOPGadgets)
              + Cardinality(gs.COPGadgets)
    /\ gs.total_unique_gadgets = Cardinality(Accepted(raws))

RowAddsUp(row) ==
    row.count["total"] = row.count["ROP"] + row.count["JOP"] + row.count["COP"]

\* C6: the ROP, JOP and COP sets of every GadgetSet are pairwise disjoint by
\* content and free of content duplicates, total_unique_gadgets is the sum
\* of their sizes (and the number of distinct accepted contents scanned),
\* and the rows of output file 1 made from the sets, the original's and the
\* variant's, have total = ROP + JOP + COP.
C6_PartitionAndRowCounts ==
    /\ original.built =>
          /\ Partitioned(original, Scan(world, args.original).raw)
          /\ RowAddsUp(File1Original(original))
    /\ variant.built =>
          Partitioned(variant, Scan(world, DictGet(variants_dict, variant.name)).raw)
    /\ stat.built => RowAddsUp(File1Variant(variant, stat, naRepr))
    /\ \A i \in 1..Len(lines.f1) :
          lines.f1[i].kind \in {"original", "variant"} => RowAddsUp(lines.f1[i])

\* C6 witness: a compared pair whose original has gadgets of two categories
\* and whose variant's scan holds one content twice, with their rows of
\* output file 1.
C6_Witness ==
    /\ stat.built
    /\ File1Original(original).count["total"] = 2
    /\ File1Original(original).count["ROP"] = 1
    /\ File1Original(original).count["JOP"] = 1
    /\ Len(Scan(world, CurrentPath).raw) = 2
    /\ Cardinality(Accepted(Scan(world, CurrentPath).raw)) = 1
    /\ Scan(world, CurrentPath).raw[1].offset # Scan(world, CurrentPath).raw[2].offset
    /\ Normalize(Scan(world, CurrentPath).raw[1].text)
          = Normalize(Scan(world, CurrentPath).raw[2].text)
    /\ File1Variant(variant, stat, naRepr).kind = "variant"
    /\ File1Variant(variant, stat, naRepr).count["total"] = 1

KeptOffsets(gs, keys) == {g.offset : g \in {h \in gs.allGadgets : h.instructions \in keys}}

\* The locality the design gives for a base and a candidate, as report text.
ExpectedLocality(o, v) ==
    LET removed == Keys(o.allGadgets) \ Keys(v.allGadgets)
        introduced == Keys(v.allGadgets) \ Keys(o.allGadgets)
        changed == Cardinality(removed) + Cardinality(introduced)
        regions == {FunctionAt(a) : a \in KeptOffsets(o, removed)}
                       \cup {FunctionAt(a) : a \in KeptOffsets(v, introduced)}
    IN  IF o.cfg /\ v.cfg /\ changed > 0
        THEN [t |-> "pct", n |-> changed - Cardinality(regions), d |-> changed]
        ELSE [t |-> "NA", n |-> 0, d |-> 0]

LocalityRows(ls) == IF args.output_simple THEN ls.simple ELSE ls.f6

\* C7: whenever a candidate has been compared with locality requested, the
\* locality of the comparison, and the locality field of the simple-report
\* row and of the output-file-6 row made from it, is 1 - |regions|/|changed|
\* exactly when at least one gadget changed and both sets were built with
\* address resolution, and NA in every other case, in particular whenever
\* one of the two sets was built with address resolution disabled; in a
\* file-report run of the driver the row written for the variant carries
\* that value, and the row is there unless the iteration was cut short by
\* an exception.
C7_LocalityReported ==
    (stat.built /\ args.output_locality) =>
        LET expected == ExpectedLocality(original, variant)
            resolving == original.cfg /\ variant.cfg
            someChanged == Keys(original.allGadgets) # Keys(variant.allGadgets)
        IN  /\ fmt_percent_keep_precision(stat.gadgetLocality) = expected
            /\ SimpleVariant(variant, stat).locality = expected
            /\ File6Variant(variant, stat).locality = expected
            /\ stat.gadgetLocality.t = "ratio" <=> (resolving /\ someChanged)
            /\ ~(resolving /\ someChanged) => stat.gadgetLocality = NA
            /\ FileMode =>
                  /\ \A i \in RowOf(LocalityRows(lines), variant.name) :
                        LocalityRows(lines)[i].locality = expected
                  /\ pc # "crashed" => RowOf(LocalityRows(lines), variant.name) # {}

\* C7 witness: both sets built with address resolution, three gadgets
\* changed in two functions, and the row made from the comparison shows
\* 1 - 2/3.
C7_Witness ==
    /\ stat.built /\ args.output_locality
    /\ original.cfg /\ variant.cfg
    /\ stat.changed = 3
    /\ Cardinality(Regions(original, variant)) = 2
    /\ File6Variant(variant, stat).locality = [t |-> "pct", n |-> 1, d |-> 3]

Complete(f) == f.content = ContentOf(lines, f.file)

Written(name) == \E j \in 1..Len(files) : files[j].file = name /\ Complete(files[j])

\* C8: a run in file-report mode that could not create the results
\* directory ends with a failure status and analyzes no variant, and no run
\* ends with status 0 while a requested report file was not written.
C8_OutputFailureIsFatal ==
    args.output_metrics =>
        /\ (Terminal /\ original.built /\ directory_name = NoDir) =>
              exit_code # 0 /\ Len(calls) = 1
        /\ exit_code = 0 => \A i \in 1..Len(Requested) : Written(Requested[i])

\* C9: the address report written lists, for each variant, only special
\* purpose gadgets absent by content from the original.
C9_AddressReportListsIntroduced ==
    \A j \in 1..Len(files) :
        files[j].file = "Likely_Gadget_Locations.txt" =>
            \A i \in 1..Len(files[j].content) :
                files[j].content[i].kind = "gadget" =>
                    files[j].content[i].instructions \notin Keys(original.allGadgets)

\* C10: without --output_metrics no results directory and no file is
\* created, and every GadgetSet and GadgetStats is built with the arguments
\* of a run without --output_addresses, --output_tables, --output_locality
\* and --output_simple: no address resolution, no locality.
C10_FlagsIgnoredWithoutMetrics ==
    ~args.output_metrics =>
        /\ directory_name = NoDir
        /\ files = <<>>
        /\ \A i \in 1..Len(calls) :
              /\ calls[i].fn = "GadgetSet" => ~calls[i].createCFG
              /\ calls[i].fn = "GadgetStats" => ~calls[i].output_locality

NameOf(entry) == Split(entry)[1]

DistinctNames ==
    \A i, j \in 1..Len(args.variants) :
        i # j => NameOf(args.variants[i]) # NameOf(args.variants[j])

WriteFailed == stdout # <<>> /\ stdout[Len(stdout)] = "OSError"

\* The simple report: a header row, the row of the original, then one row
\* per variant of the mapping, in its order.
SimpleReport(content) ==
    /\ Len(content) = 2 + Len(variants_dict)
    /\ content[1] = Header
    /\ content[2] = SimpleOriginal(original)
    /\ \A j \in 1..Len(variants_dict) :
          /\ content[2 + j].kind = "variant"
          /\ content[2 + j].name = variants_dict[j].key

\* C11: with --output_simple the locality metric is enabled whether or not
\* --output_locality was given: every GadgetStats is computed with locality
\* requested and every variant row of the simple report carries a locality
\* field (the value GadgetStats gave, kept exact); in file-report mode no
\* file other than GadgetSetAnalysis.csv is ever written, and a run whose
\* write phase went through has written exactly that one file, holding the
\* header row, the row of the original and one row per variant.
C11_SimpleEnablesLocality ==
    (args.output_simple /\ pc # "start") =>
        /\ args.output_locality
        /\ \A i \in 1..Len(calls) :
              calls[i].fn = "GadgetStats" => calls[i].output_locality
        /\ \A i \in VariantRows(lines.simple) :
              lines.simple[i].locality.t \in {"NA", "pct"}
        /\ (FileMode /\ stat.built) =>
              \E i \in RowOf(lines.simple, variant.name) :
                  lines.simple[i].locality = fmt_percent_keep_precision(stat.gadgetLocality)
        /\ Len(files) <= 1
        /\ \A j \in 1..Len(files) : files[j].file = "GadgetSetAnalysis.csv"
        /\ (FileMode /\ pc = "done" /\ ~WriteFailed) =>
              /\ Len(files) = 1
              /\ SimpleReport(files[1].content)
              /\ DistinctNames => Len(files[1].content) = 2 + Len(args.variants)

\* C11 witness: a finished file-report run with --output_simple and without
\* --output_locality that compared two variants with locality requested and
\* wrote the one report file with four rows.
C11_Witness ==
    /\ pc = "done"
    /\ FileMode
    /\ args.output_simple /\ ~args.given_locality
    /\ Len(args.variants) = 2
    /\ Len(calls) = 5
    /\ calls[3].output_locality /\ calls[5].output_locality
    /\ Len(files) = 1
    /\ files[1].file = "GadgetSetAnalysis.csv"
    /\ Len(files[1].content) = 4
    /\ files[1].content[4].kind = "variant"
    /\ files[1].content[4].locality.t = "NA"

RECURSIVE FirstOccurrences(_, _, _)
\* The names of the entries vs[i..], each once, in order of first occurrence.
FirstOccurrences(vs, i, seen) ==
    IF i > Len(vs) THEN <<>>
    ELSE IF NameOf(vs[i]) \in seen THEN FirstOccurrences(vs, i + 1, seen)
    ELSE <<NameOf(vs[i])>> \o FirstOccurrences(vs, i + 1, seen \cup {NameOf(vs[i])})

SetCallsOf(name) == {i \in 1..Len(calls) : calls[i].fn = "GadgetSet" /\ calls[i].name = name}

StatsCallsOf(name) ==
    {i \in 1..Len(calls) : calls[i].fn = "GadgetStats" /\ calls[i].candidate = name}

\* The constructor calls of a run that passed validation, as far as it got:
\* the original first, then for the k-th name a GadgetSet of that name
\* followed at once by the GadgetStats of the original and that name.
CallsInOrder ==
    /\ DictKeys(variants_dict) = FirstOccurrences(args.variants, 1, {})
    /\ calls # <<>> =>
          /\ calls[1].fn = "GadgetSet"
          /\ calls[1].name = args.original_name
          /\ calls[1].path = args.original
    /\ Cardinality(SetCallsOf(args.original_name)) <= 1
    /\ \A i \in 1..Len(calls) : calls[i].fn = "GadgetStats" => original.built
    /\ \A k \in 1..Len(variants_dict) :
          LET key == variants_dict[k].key
          IN  /\ SetCallsOf(key) \subseteq {2 * k}
              /\ StatsCallsOf(key) \subseteq {2 * k + 1}
              /\ StatsCallsOf(key) # {} =>
                    /\ SetCallsOf(key) # {}
                    /\ calls[2 * k].ok
                    /\ calls[2 * k].path = variants_dict[k].path
                    /\ calls[2 * k + 1].base = original.name
              /\ k <= idx => StatsCallsOf(key) = {2 * k + 1}
    /\ Len(calls) <= 1 + 2 * Len(variants_dict)
    /\ stat.built =>
          /\ StatsCallsOf(variant.name) # {}
          /\ stat = GadgetStats(original, variant, args.output_console, args.output_locality)
    /\ pc = "done" =>
          /\ idx = Len(variants_dict)
          /\ Len(calls) = 1 + 2 * Len(variants_dict)
    /\ files # <<>> => Len(calls) = 1 + 2 * Len(variants_dict)

\* Once built the original is never rebuilt or modified, and calls are only
\* ever added at the end of the log.
OriginalKept ==
    /\ original.built => original' = original
    /\ Len(calls') >= Len(calls)
    /\ SubSeq(calls', 1, Len(calls)) = calls

\* C12: in a run that passed validation the original GadgetSet is built
\* once and before any variant; the distinct variant names are built in
\* command-line order (order of first occurrence), each at most once and
\* each followed at once by its one GadgetStats with the original as base
\* and that variant as candidate; a run that reaches its end has built and
\* compared every one of them; the original is never changed once built;
\* and no report file exists before every variant has been compared.
C12_BuildAndCompareOrder ==
    /\ [](pc \notin {"start", "exited"} => CallsInOrder)
    /\ [][OriginalKept]_vars

\* C12 witness: a finished file-report run over two names given as b then a:
\* original, b, stats of b, a, stats of a, then the files.
C12_Witness ==
    /\ pc = "done"
    /\ FileMode
    /\ files # <<>>
    /\ Len(variants_dict) = 2
    /\ Len(calls) = 5
    /\ calls[1].name = args.original_name
    /\ calls[2].fn = "GadgetSet" /\ calls[2].name = <<"b">>
    /\ calls[3].fn = "GadgetStats" /\ calls[3].candidate = <<"b">>
    /\ calls[4].fn = "GadgetSet" /\ calls[4].name = <<"a">>
    /\ calls[5].fn = "GadgetStats" /\ calls[5].candidate = <<"a">>
    /\ calls[5].base = original.name

DuplicateName ==
    \E i, j \in 1..Len(args.variants) :
        /\ i < j
        /\ NameOf(args.variants[i]) = NameOf(args.variants[j])

\* C13: a --variants list in which one variant name appears more than once
\* is rejected when the mapping is constructed: the run ends there with a
\* failure status and no binary is analyzed.
C13_DuplicateNameRejected ==
    (pc # "start" /\ DuplicateName) =>
        /\ pc = "exited"
        /\ exit_code = 1
        /\ NothingAnalyzed

PathOf(entry) == Split(entry)[2]

CsvReports ==
    {"GadgetSetAnalysis.csv", "GadgetCounts_Reduction.csv",
     "Gadget_Introduction_Counts_Rate.csv", "SpecialPurpose_GadgetCounts_Reduction.csv",
     "SpecialPurpose_Gadget_Introduction_Counts_Rate.csv", "Expressivity_Counts.csv",
     "Gadget Locality.csv", "Gadget Quality.csv"}

\* The row of a CSV report computed from the original, one variant and its
\* comparison alone.
CsvRow(file, v, st) ==
    CASE file = "GadgetSetAnalysis.csv" -> SimpleVariant(v, st)
      [] file = "GadgetCounts_Reduction.csv" -> File1Variant(v, st, naRepr)
      [] file = "Gadget_Introduction_Counts_Rate.csv" -> File2Variant(v, st, naRepr)
      [] file = "SpecialPurpose_GadgetCounts_Reduction.csv" -> File3Variant(v, st, naRepr)
      [] file = "SpecialPurpose_Gadget_Introduction_Counts_Rate.csv"
            -> File4Variant(v, st, naRepr)
      [] file = "Expressivity_Counts.csv" -> File5Row("variant", v)
      [] file = "Gadget Locality.csv" -> File6Variant(v, st)
      [] OTHER -> File7Row("variant", v)

\* The row the variant NAME=PATH gets in a run with the same original, the
\* same flags and the same binaries in which it is the only variant.
RowAlone(file, entry) ==
    LET v == GadgetSet(NameOf(entry), Scan(world, PathOf(entry)).raw,
                       VariantCFG, args.output_console)
    IN  CsvRow(file, v, GadgetStats(original, v, args.output_console, args.output_locality))

RowNames(content) ==
    [k \in 1..Cardinality(VariantRows(content)) |->
        content[Len(content) - Cardinality(VariantRows(content)) + k].name]

\* C14: in every CSV report a file-report run wrote, the row of a variant given
\* on the command line is the row that variant gets when it is the only
\* one (same original, same flags), whatever the other variants and their
\* order; and the variant rows are in command-line order, one per variant
\* analyzed.
C14_RowDependsOnVariantOnly ==
    \A j \in 1..Len(files) :
        (files[j].file \in CsvReports /\ Complete(files[j])) =>
            /\ \A i \in 1..Len(args.variants) :
                  Scan(world, PathOf(args.variants[i])).ok =>
                      \A r \in RowOf(files[j].content, NameOf(args.variants[i])) :
                          files[j].content[r] = RowAlone(files[j].file, args.variants[i])
            /\ RowNames(files[j].content) = FirstOccurrences(args.variants, 1, {})
            /\ Cardinality(VariantRows(files[j].content)) = Len(variants_dict)

====
